---------------------------- MODULE Spec2Model ----------------------------
(***************************************************************************)
(* tahoo: a local archive (SQLite table HistoryTable) of daily price bars, *)
(* refreshed incrementally from Yahoo Finance and queried through pandas.  *)
(*                                                                         *)
(* Dates.  A datetime / Timestamp is a day number; day 0 is Monday         *)
(* 2014-12-29, so the weekday of day d is d % 7 (0 = Monday, 5 = Saturday, *)
(* 6 = Sunday).  A date string '%Y-%m-%d' is the triple <<y, m, d>>; the   *)
(* string order SQLite uses on it is the lexicographic order of the        *)
(* triple (every part is zero padded to a fixed width).                    *)
(*                                                                         *)
(* Numbers.  The provider's prices are in thousandths; DataFrame.round(2)  *)
(* turns them into hundredths, which is what the archive holds.            *)
(***************************************************************************)
EXTENDS Integers, Sequences, FiniteSets, TLC

\* ------------------------------------------------------------------ bounds
\* Number of days the clock may advance past FirstToday.
MaxTicks == 1
\* Number of store events in a behaviour: insert calls made outside a sync
\* pass, and insert calls of a pass that raise.
MaxStoreEvents == 1
\* Longest batch of a standalone insert call.
MaxBatch == 2
\* Day numbers next_work_day is tabulated on in the calendar specification.
MaxCalDay == 120

MaxQRows == 3

\* ------------------------------------------------------------- calendar
\* datetime.timedelta(days=1) steps on day numbers; strftime("%A").
Weekday(day) == day % 7

Saturday == 5

Sunday == 6

IsLeap(y) == (y % 4 = 0 /\ y % 100 # 0) \/ y % 400 = 0

DaysInMonth(y, m) ==
    IF m = 2 THEN (IF IsLeap(y) THEN 29 ELSE 28)
    ELSE IF m \in {4, 6, 9, 11} THEN 30 ELSE 31

DaysInYear(y) == IF IsLeap(y) THEN 366 ELSE 365

\* Day number of 2014-12-01, the first of the month day 0 lies in.
EpochMonthStart == -28

RECURSIVE CivilFrom(_, _, _)
\* The date that lies `rest` days after the first of month m of year y.
CivilFrom(y, m, rest) ==
    IF m = 1 /\ rest >= DaysInYear(y)
    THEN CivilFrom(y + 1, 1, rest - DaysInYear(y))
    ELSE IF rest < DaysInMonth(y, m) THEN <<y, m, rest + 1>>
    ELSE IF m = 12 THEN CivilFrom(y + 1, 1, rest - DaysInMonth(y, m))
    ELSE CivilFrom(y, m + 1, rest - DaysInMonth(y, m))

\* df['Date'].dt.strftime('%Y-%m-%d'): a Timestamp to its date string.
Strftime(day) == CivilFrom(2014, 12, day - EpochMonthStart)

RECURSIVE DaysUpTo(_, _, _, _)
\* Days from the first of month m0 of year y0 to the first of month m of y.
DaysUpTo(y0, m0, y, m) ==
    IF y0 = y /\ m0 = m THEN 0
    ELSE IF m0 = 1 /\ y0 < y THEN DaysInYear(y0) + DaysUpTo(y0 + 1, 1, y, m)
    ELSE IF m0 = 12 THEN DaysInMonth(y0, m0) + DaysUpTo(y0 + 1, 1, y, m)
    ELSE DaysInMonth(y0, m0) + DaysUpTo(y0, m0 + 1, y, m)

\* datetime.datetime.strptime(value, "%Y-%m-%d"): a date string to a datetime.
Strptime(s) == EpochMonthStart + DaysUpTo(2014, 12, s[1], s[2]) + s[3] - 1

\* The order SQLite's max() and comparisons put on two date strings.
StrLess(a, b) ==
    \/ a[1] < b[1]
    \/ a[1] = b[1] /\ a[2] < b[2]
    \/ a[1] = b[1] /\ a[2] = b[2] /\ a[3] < b[3]

\* A variant of next_work_day: the weekend is not skipped.
next_work_day_noskip(day) == day + 1

\* fetch.next_work_day / StockDatabase._next_work_day
next_work_day(day) ==
    LET d1 == day + 1
    IN  IF Weekday(d1) = Saturday THEN d1 + 2
        ELSE IF Weekday(d1) = Sunday THEN d1 + 1
        ELSE d1


\* ---------------------------------------------------------------- state
VARIABLES
    archive,    \* HistoryTable as committed to the database file, in rowid order
    txn,        \* rows written on the connection and not committed yet
    today,      \* datetime.date.today()
    upstream,   \* per ticker, the days Yahoo Finance has a bar for
    updates,    \* the manual updates CSV: NoFile, or its records in file order
    pc,         \* where refresh_history is: "idle", "fetch" or "save"
    req,        \* the tickers argument of the running (or last) pass
    select,     \* its list of (ticker, refresh_date)
    data,       \* its list of fetched frames
    k,          \* number of entries of select already fetched
    pre,        \* the table as the pass found it
    calls,      \* the upstream calls the pass has made, in order
    raised,     \* the tickers whose upstream call raised in the pass
    outcome,    \* how the last pass ended
    last,       \* the insert call just made: its rows, the table before it, its result
    aborted,    \* the archive before the insert call that failed, until the next call
    events,     \* store events so far
    day,        \* calendar specification: the argument of next_work_day
    nwd,        \* calendar specification: its result
    qry,        \* query specification: the query call made, with its arguments
    res         \* query specification: what the call returned or raised

vars == <<archive, txn, today, upstream, updates, pc, req, select, data, k, pre,
          calls, raised, outcome, last, aborted, events,
          day, nwd, qry, res>>

storeVars == <<archive, txn>>

envVars == <<today, upstream, updates>>

passVars == <<pc, req, select, data, k, pre, calls, raised, outcome>>

calVars == <<day, nwd>>

qVars == <<qry, res>>

\* ---------------------------------------------------------------- data
\* Ticker symbols.  "LOW" (Lowe's) is spelled like the column Low.
Tickers == {"A", "LOW"}

\* settings['default']['tickers']
default_tickers == <<"A", "LOW">>

\* The column list of the frame handed to insert.
Columns == {"Date", "Ticker", "Open", "High", "Low", "Close", "Volume", "Splits", "Dividends"}

\* A missing value (NaN) of a numeric column.
NaN == -1

\* updates_path.exists() is false.
NoFile == [exists |-> FALSE, records |-> <<>>]

\* The updates CSV holding the given records under its header.
Csv(records) == [exists |-> TRUE, records |-> records]

\* The first day the clock shows: Friday 2015-01-02.
FirstToday == 4

Days == FirstToday .. (FirstToday + MaxTicks)

\* DataFrame.round(2) on thousandths: to the nearest hundredth, ties to even.
Round2(x) ==
    LET q == x \div 10
        r == x % 10
    IN  IF r > 5 \/ (r = 5 /\ q % 2 = 1) THEN q + 1 ELSE q

\* The bar Yahoo Finance holds for ticker t on day d (prices in thousandths).
BarOf(t, d) ==
    LET base == IF t = "A" THEN 10000 ELSE 20000
    IN  [Date |-> d,
         Open |-> base + 15 * d - 5,
         High |-> base + 15 * d + 25,
         Low |-> base + 15 * d - 25,
         Close |-> base + 15 * d,
         Volume |-> 1000 + d,
         Dividends |-> IF d % 2 = 0 THEN 255 ELSE 0,
         StockSplits |-> IF t = "LOW" /\ d = 4 THEN 2000 ELSE 0]

RECURSIVE SortedDays(_)
\* The days of a set in ascending order.
SortedDays(S) ==
    IF S = {} THEN <<>>
    ELSE LET m == CHOOSE x \in S : \A y \in S : x <= y
         IN  <<m>> \o SortedDays(S \ {m})

\* yf.Ticker(ticker).history(start=refresh_date): the bars from start on.
yf_history(t, start) ==
    LET ds == SortedDays({d \in upstream[t] : d >= start})
    IN  [i \in 1 .. Len(ds) |-> BarOf(t, ds[i])]

\* The frame refresh_history makes of a non-empty response: round(2),
\* reset_index (labels 0, 1, ...), Ticker column, rename, strftime.
Normalize(t, bars) ==
    [i \in 1 .. Len(bars) |->
        [idx |-> i - 1,
         row |-> [Date |-> Strftime(bars[i].Date),
                  Ticker |-> t,
                  Open |-> Round2(bars[i].Open),
                  High |-> Round2(bars[i].High),
                  Low |-> Round2(bars[i].Low),
                  Close |-> Round2(bars[i].Close),
                  Volume |-> bars[i].Volume,
                  Splits |-> Round2(bars[i].StockSplits),
                  Dividends |-> Round2(bars[i].Dividends)]]]

RECURSIVE concat(_)
\* pd.concat(data): the frames one after the other, each row keeping its label.
concat(frames) ==
    IF frames = <<>> THEN <<>> ELSE Head(frames) \o concat(Tail(frames))

\* isna() of a value of column c in the frame read from the CSV.
IsNA(c, v) == c \notin {"Date", "Ticker"} /\ v = NaN

\* df.update(fix_errors): fix_errors is reindexed to the labels of df, and every
\* non-NA value of it replaces the value of df at the same label and column.
df_update(df, fix) ==
    [i \in 1 .. Len(df) |->
        IF df[i].idx + 1 \in 1 .. Len(fix)
        THEN [idx |-> df[i].idx,
              row |-> [c \in Columns |->
                          IF IsNA(c, fix[df[i].idx + 1][c])
                          THEN df[i].row[c]
                          ELSE fix[df[i].idx + 1][c]]]
        ELSE df[i]]

\* df[['Date', 'Ticker', ...]] and df.itertuples(index=False): the rows in order.
itertuples(df) == [i \in 1 .. Len(df) |-> df[i].row]

\* ---------------------------------------------------------------- store
\* What a statement on the connection reads: committed rows, then its own.
Table == archive \o txn

KeyOf(r) == <<r.Ticker, r.Date>>

Keys(table) == {KeyOf(table[i]) : i \in 1 .. Len(table)}

\* A variant of InsertRow: INSERT OR REPLACE, the new row takes the key.
InsertRowReplace(table, r) ==
    IF KeyOf(r) \in Keys(table)
    THEN [i \in 1 .. Len(table) |-> IF KeyOf(table[i]) = KeyOf(r) THEN r ELSE table[i]]
    ELSE Append(table, r)

\* A variant of InsertRow: no uniqueness constraint on the table.
InsertRowNoConstraint(table, r) == Append(table, r)

\* INSERT OR IGNORE of one row under UNIQUE (Ticker, Date) ON CONFLICT IGNORE.
InsertRow(table, r) ==
    IF KeyOf(r) \in Keys(table) THEN table ELSE Append(table, r)

RECURSIVE executemany(_, _)
\* cursor.executemany(sql, rows): the statement once per row, in order.
executemany(table, rows) ==
    IF rows = <<>> THEN table
    ELSE executemany(InsertRow(table, Head(rows)), Tail(rows))

\* The rows of the table past the committed ones.
Pending(table) == SubSeq(table, Len(archive) + 1, Len(table))

\* WHERE Ticker="<t>": SQLite reads a double-quoted word as a column name
\* when the table has such a column (names compare without case), and as a
\* string otherwise.  A text Ticker never equals a value of a numeric column.
TickerIs(r, t) ==
    IF t = "LOW" THEN FALSE ELSE r.Ticker = t

\* queries.get_max_date / StockDatabase._max_day, with default None.
get_max_date(table, ticker) ==
    LET ds == {table[i].Date : i \in {j \in 1 .. Len(table) : TickerIs(table[j], ticker)}}
    IN  IF ds = {} THEN Strptime(<<2014, 12, 31>>)
        ELSE Strptime(CHOOSE m \in ds : \A x \in ds : ~StrLess(m, x))


\* ------------------------------------------------------------ sync pass
\* tickers if tickers else default_tickers / StockDatabase.tickers
Resolve(tickers) == IF tickers = <<>> THEN default_tickers ELSE tickers

\* if datetime.date.today() >= refresh_date
Selected(now, refresh_date) == now >= refresh_date

RECURSIVE SelectOf(_, _, _)
\* The loop "Find which tickers need updating" over ticker_list.
SelectOf(table, ticker_list, now) ==
    IF ticker_list = <<>> THEN <<>>
    ELSE LET ticker == Head(ticker_list)
             refresh_date == next_work_day(get_max_date(table, ticker))
         IN  (IF Selected(now, refresh_date) THEN <<<<ticker, refresh_date>>>> ELSE <<>>)
             \o SelectOf(table, Tail(ticker_list), now)

\* if updates_path.exists(): fix_errors = pd.read_csv(...); df.update(fix_errors)
Corrected(df, file) == IF file.exists THEN df_update(df, file.records) ELSE df

\* The rows the pass hands to insert for the frames in data.
SaveRows(frames, file) == itertuples(Corrected(concat(frames), file))

RECURSIVE FramesOf(_, _)
\* The list data after the fetch loop over sel, when the upstream calls for
\* the tickers in fails raise and the others return.
FramesOf(sel, fails) ==
    IF sel = <<>> THEN <<>>
    ELSE LET ticker == Head(sel)[1]
             df == yf_history(ticker, Head(sel)[2])
         IN  (IF ticker \in fails \/ df = <<>> THEN <<>> ELSE <<Normalize(ticker, df)>>)
             \o FramesOf(Tail(sel), fails)

\* refresh_history as one step: the table it leaves when called with tickers
\* on a connection reading table, insert returning.
refresh_history(table, tickers, fails) ==
    LET frames == FramesOf(SelectOf(table, Resolve(tickers), today), fails)
    IN  IF frames = <<>> THEN table
        ELSE executemany(table, SaveRows(frames, updates))

NoCall == [op |-> "none", ok |-> TRUE, rows |-> <<>>, before |-> <<>>, n |-> 0]

NoAbort == [on |-> FALSE, before |-> <<>>]

\* The pass variables when no pass is running and none has just ended.
PassIdle ==
    /\ pc' = "idle" /\ req' = <<>> /\ select' = <<>> /\ data' = <<>> /\ k' = 0
    /\ pre' = <<>> /\ calls' = <<>> /\ raised' = {} /\ outcome' = "none"

\* The argument lists a pass is called with: None or [] (the default
\* tickers A, LOW), one ticker, and the two tickers in the other order.
Requests == {<<>>, <<"A">>, <<"LOW">>, <<"LOW", "A">>}

\* refresh_history up to its first upstream call: the planning loop, and
\* the return "Nothing to do" when no ticker is selected.
StartPass(tickers) ==
    /\ pc = "idle"
    /\ LET sel == SelectOf(Table, Resolve(tickers), today)
       IN  /\ select' = sel
           /\ pc' = IF sel = <<>> THEN "idle" ELSE "fetch"
           /\ outcome' = IF sel = <<>> THEN "nothing" ELSE "running"
    /\ req' = tickers
    /\ data' = <<>> /\ k' = 0 /\ pre' = Table /\ calls' = <<>> /\ raised' = {}
    /\ last' = NoCall
    /\ UNCHANGED <<storeVars, envVars, aborted, events, calVars, qVars>>

\* A variant of FetchOk: the frame is stored as soon as it is fetched.
FetchOkStores ==
    /\ pc = "fetch" /\ k < Len(select)
    /\ LET ticker == select[k + 1][1]
           refresh_date == select[k + 1][2]
           df == yf_history(ticker, refresh_date)
       IN  /\ data' = IF df = <<>> THEN data ELSE Append(data, Normalize(ticker, df))
           /\ calls' = Append(calls, <<ticker, refresh_date>>)
           /\ archive' = executemany(Table, itertuples(Normalize(ticker, df)))
           /\ txn' = <<>>
    /\ k' = k + 1
    /\ pc' = IF k + 1 = Len(select) THEN "save" ELSE "fetch"
    /\ UNCHANGED <<envVars, req, select, pre, raised, outcome, last,
                   aborted, events, calVars, qVars>>

\* One turn of the fetch loop in which stock.history returns.
FetchOk ==
    /\ pc = "fetch" /\ k < Len(select)
    /\ LET ticker == select[k + 1][1]
           refresh_date == select[k + 1][2]
           df == yf_history(ticker, refresh_date)
       IN  /\ data' = IF df = <<>> THEN data ELSE Append(data, Normalize(ticker, df))
           /\ calls' = Append(calls, <<ticker, refresh_date>>)
    /\ k' = k + 1
    /\ pc' = IF k + 1 = Len(select) THEN "save" ELSE "fetch"
    /\ UNCHANGED <<storeVars, envVars, req, select, pre, raised, outcome, last,
                   aborted, events, calVars, qVars>>

\* A variant of FetchRaise: the exception ends the fetch loop.
FetchRaiseBreaks ==
    /\ pc = "fetch" /\ k < Len(select)
    /\ calls' = Append(calls, <<select[k + 1][1], select[k + 1][2]>>)
    /\ raised' = raised \cup {select[k + 1][1]}
    /\ k' = Len(select)
    /\ pc' = "save"
    /\ UNCHANGED <<storeVars, envVars, req, select, data, pre, outcome, last,
                   aborted, events, calVars, qVars>>

\* One turn of the fetch loop in which stock.history raises: except Exception.
FetchRaise ==
    /\ pc = "fetch" /\ k < Len(select)
    /\ calls' = Append(calls, <<select[k + 1][1], select[k + 1][2]>>)
    /\ raised' = raised \cup {select[k + 1][1]}
    /\ k' = k + 1
    /\ pc' = IF k + 1 = Len(select) THEN "save" ELSE "fetch"
    /\ UNCHANGED <<storeVars, envVars, req, select, data, pre, outcome, last,
                   aborted, events, calVars, qVars>>

\* KeyboardInterrupt during the fetch loop: it is no Exception, the pass ends.
Interrupt ==
    /\ pc = "fetch"
    /\ pc' = "idle" /\ outcome' = "interrupted"
    /\ UNCHANGED <<storeVars, envVars, req, select, data, k, pre, calls, raised,
                   last, aborted, events, calVars, qVars>>

\* "Save to database" when every response was empty or raised: if data is false.
SaveNothing ==
    /\ pc = "save" /\ data = <<>>
    /\ pc' = "idle" /\ outcome' = "done"
    /\ UNCHANGED <<storeVars, envVars, req, select, data, k, pre, calls, raised,
                   last, aborted, events, calVars, qVars>>

\* "Save to database" with pd.read_csv(updates_path) raising (the file
\* cannot be read or parsed): the error leaves refresh_history before insert.
ReadRaises ==
    /\ pc = "save" /\ data # <<>> /\ updates.exists
    /\ pc' = "idle" /\ outcome' = "read error"
    /\ UNCHANGED <<storeVars, envVars, req, select, data, k, pre, calls, raised,
                   last, aborted, events, calVars, qVars>>

\* store.insert / StockDatabase.insert returning: executemany, then commit.
insert(rows) ==
    /\ archive' = executemany(Table, rows)
    /\ txn' = <<>>
    /\ last' = [op |-> "insert", ok |-> TRUE, rows |-> rows, before |-> Table,
                n |-> Len(rows)]
    /\ aborted' = NoAbort

\* store.insert raising after n rows were executed (n = Len(rows): in commit).
\* Nothing rolls the open transaction back.
insert_raises(rows, n) ==
    /\ archive' = archive
    /\ txn' = Pending(executemany(Table, SubSeq(rows, 1, n)))
    /\ last' = [op |-> "insert", ok |-> FALSE, rows |-> rows, before |-> Table, n |-> n]
    /\ aborted' = [on |-> TRUE, before |-> archive]

\* "Save to database": concat, manual corrections, insert.
Save ==
    /\ pc = "save" /\ data # <<>>
    /\ insert(SaveRows(data, updates))
    /\ pc' = "idle" /\ outcome' = "done"
    /\ UNCHANGED <<envVars, req, select, data, k, pre, calls, raised, events, calVars, qVars>>

\* "Save to database" with insert raising: the error leaves refresh_history.
SaveRaises ==
    /\ pc = "save" /\ data # <<>>
    /\ events < MaxStoreEvents
    /\ events' = events + 1
    /\ \E n \in 0 .. Len(SaveRows(data, updates)) : insert_raises(SaveRows(data, updates), n)
    /\ pc' = "idle" /\ outcome' = "store error"
    /\ UNCHANGED <<envVars, req, select, data, k, pre, calls, raised, calVars, qVars>>


\* ------------------------------------------------- standalone store calls
\* A row of HistoryTable for ticker t on day d with Close c (hundredths).
Bar(t, d, c) ==
    [Date |-> Strftime(d), Ticker |-> t, Open |-> c, High |-> c, Low |-> c,
     Close |-> c, Volume |-> 1000, Splits |-> 0, Dividends |-> 0]

\* The rows a caller passes to insert: two rows with one key and different
\* values, and a row with another key.
InsertRows == {Bar("A", 4, 100), Bar("A", 4, 200), Bar("LOW", 4, 100)}

RECURSIVE SeqsUpTo(_, _)
\* The sequences over S of length 1 .. n.
SeqsUpTo(S, n) ==
    IF n = 0 THEN {}
    ELSE {<<x>> : x \in S}
         \cup {Append(q, x) : q \in SeqsUpTo(S, n - 1), x \in S}

Batches == SeqsUpTo(InsertRows, MaxBatch)

\* store.insert(conn, 'HistoryTable', df) called by itself, returning.
Insert(rows) ==
    /\ pc = "idle" /\ events < MaxStoreEvents
    /\ events' = events + 1
    /\ insert(rows)
    /\ PassIdle
    /\ UNCHANGED <<envVars, calVars, qVars>>

\* store.insert called by itself, raising after n rows.
InsertRaises(rows, n) ==
    /\ pc = "idle" /\ events < MaxStoreEvents
    /\ events' = events + 1
    /\ insert_raises(rows, n)
    /\ PassIdle
    /\ UNCHANGED <<envVars, calVars, qVars>>

\* store.init_schema: executescript commits the open transaction, then
\* CREATE TABLE IF NOT EXISTS finds the table and leaves it.
init_schema ==
    /\ pc = "idle"
    /\ archive' = Table
    /\ txn' = <<>>
    /\ last' = NoCall
    /\ PassIdle
    /\ UNCHANGED <<envVars, aborted, events, calVars, qVars>>

\* The process ends and a new one connects (store.connect): what was not
\* committed is gone; init_schema finds the table.
connect ==
    /\ pc = "idle"
    /\ txn' = <<>>
    /\ last' = NoCall
    /\ PassIdle
    /\ UNCHANGED <<archive, envVars, aborted, events, calVars, qVars>>

\* ------------------------------------------------------------ environment
\* Midnight.
Tick ==
    /\ pc = "idle" /\ today < FirstToday + MaxTicks
    /\ today' = today + 1
    /\ last' = NoCall
    /\ PassIdle
    /\ UNCHANGED <<storeVars, upstream, updates, aborted, events, calVars, qVars>>

\* Yahoo Finance gets today's bar of ticker t.
Publish(t) ==
    /\ pc = "idle" /\ today \notin upstream[t]
    /\ upstream' = [upstream EXCEPT ![t] = @ \cup {today}]
    /\ last' = NoCall
    /\ PassIdle
    /\ UNCHANGED <<storeVars, today, updates, aborted, events, calVars, qVars>>

\* A record of the updates CSV: Date, Ticker, and values for Close and
\* Dividends (NaN where the cell is empty); the other cells are empty.
Fix(d, t, close, dividends) ==
    [Date |-> Strftime(d), Ticker |-> t, Open |-> NaN, High |-> NaN, Low |-> NaN,
     Close |-> close, Volume |-> NaN, Splits |-> NaN, Dividends |-> dividends]

\* The contents the operator gives the updates CSV: absent, the header alone
\* (as init_config writes it), a table of one record and one of two.
UpdateFiles ==
    {NoFile,
     Csv(<<>>),
     Csv(<<Fix(4, "A", 88800, NaN)>>),
     Csv(<<Fix(3, "A", 99900, NaN), Fix(4, "A", NaN, 500)>>)}

\* -------------------------------------------------------------- queries
\* No query call was made.
NoQuery == [name |-> "none"]

NoResult == [status |-> "none", rows |-> <<>>, sql |-> 0]

\* The call returned the frame `rows` after `n` SQL statements.
Returned(rows, n) == [status |-> "ok", rows |-> rows, sql |-> n]

\* The call raised the exception `e` after `n` SQL statements were sent.
Raised(e, n) == [status |-> e, rows |-> <<>>, sql |-> n]

\* start_date / end_date is None.
NoDate == <<>>

\* Date >= date("<start_date>") AND Date < date("<end_date>"), each present
\* when its argument is given; text compares byte by byte.
InInterval(r, start_date, end_date) ==
    /\ start_date = NoDate \/ ~StrLess(r.Date, start_date)
    /\ end_date = NoDate \/ StrLess(r.Date, end_date)

\* (Ticker="<t1>" OR Ticker="<t2>" ...)
TickerAny(r, tickers) == \E i \in 1 .. Len(tickers) : TickerIs(r, tickers[i])

\* A variant of DivsSplits: with both flags set the terms are joined by OR.
DivsSplitsEither(r, dividends, splits) ==
    IF dividends /\ splits
    THEN (r.Dividends # NaN /\ r.Dividends > 0) \/ (r.Splits # NaN /\ r.Splits # 0)
    ELSE /\ dividends => (r.Dividends # NaN /\ r.Dividends > 0)
         /\ splits => (r.Splits # NaN /\ r.Splits # 0)

\* Dividends > 0 / Splits != 0 when the flag is set; NULL satisfies neither.
DivsSplits(r, dividends, splits) ==
    /\ dividends => (r.Dividends # NaN /\ r.Dividends > 0)
    /\ splits => (r.Splits # NaN /\ r.Splits # 0)

\* The tickers in the order of the BINARY collation.
TickerOrder == <<"A", "B", "LOW">>

Rank(t) == CHOOSE i \in 1 .. Len(TickerOrder) : TickerOrder[i] = t

\* The order of sqlite_autoindex_HistoryTable_1, the index of UNIQUE (Ticker, Date).
KeyLess(r, s) ==
    \/ Rank(r.Ticker) < Rank(s.Ticker)
    \/ r.Ticker = s.Ticker /\ StrLess(r.Date, s.Date)

RECURSIVE IndexOrder(_)
\* The rows of a set in the order of the index.
IndexOrder(S) ==
    IF S = {} THEN <<>>
    ELSE LET m == CHOOSE x \in S : \A y \in S : ~KeyLess(y, x)
         IN  <<m>> \o IndexOrder(S \ {m})

\* SELECT ... FROM HistoryTable WHERE (<ticker terms>), no ORDER BY: the rows
\* in the order SQLite returns them; the other terms of a WHERE clause filter
\* them without changing their order.  When every ticker term compares the
\* column with a string, SQLite searches the index and the rows come in
\* (Ticker, Date) order; a term that compares with a column makes it scan the
\* table, and they come in rowid order.
Select(table, tickers) ==
    LET Hit(r) == TickerAny(r, tickers)
        hits == SelectSeq(table, Hit)
    IN  IF \A i \in 1 .. Len(tickers) : TickerIs([Ticker |-> tickers[i]], tickers[i])
        THEN IndexOrder({hits[i] : i \in 1 .. Len(hits)})
        ELSE hits

\* pd.to_datetime(df['Date'], format='%Y-%m-%d') on the rows of a frame.
to_datetime(df) == [i \in 1 .. Len(df) |-> [df[i] EXCEPT !.Date = Strptime(@)]]

\* queries.get_prices.  With no tickers the WHERE clause ends in "()", which
\* SQLite rejects; read_sql_query raises DatabaseError.
get_prices(table, tickers, start_date, end_date, dividends, splits) ==
    LET Cond(r) == InInterval(r, start_date, end_date) /\ DivsSplits(r, dividends, splits)
    IN  IF tickers = <<>> THEN Raised("DatabaseError", 1)
        ELSE Returned(to_datetime(SelectSeq(Select(table, tickers), Cond)), 1)

\* StockDatabase.tickers
tickers_or_default(defaults, tickers) == IF tickers = <<>> THEN defaults ELSE tickers

\* StockDatabase.history, tickers not None.
history(table, defaults, tickers, begin, end, dividends, splits) ==
    get_prices(table, tickers_or_default(defaults, tickers), begin, end, dividends, splits)

\* The distinct tickers of the rows, in ascending order: the groups of
\* GROUP BY Ticker and of groupby("Ticker").
TickersOf(rows) ==
    LET Has(t) == \E i \in 1 .. Len(rows) : rows[i].Ticker = t
    IN  SelectSeq(TickerOrder, Has)

\* The rows of one ticker, in the order they have in `rows`.
GroupOf(rows, t) ==
    LET Same(r) == r.Ticker = t
    IN  SelectSeq(rows, Same)

\* The row max(Date) / min(Date) takes the bare columns of a group from.
MaxRow(rows) ==
    CHOOSE r \in {rows[i] : i \in 1 .. Len(rows)} :
        \A i \in 1 .. Len(rows) : ~StrLess(r.Date, rows[i].Date)

MinRow(rows) ==
    CHOOSE r \in {rows[i] : i \in 1 .. Len(rows)} :
        \A i \in 1 .. Len(rows) : ~StrLess(rows[i].Date, r.Date)

\* A variant of get_latest_close: the tickers argument is not tested.
get_latest_close_unchecked(table, tickers, start_date, end_date) ==
    LET Cond(r) == InInterval(r, start_date, end_date)
        hits == SelectSeq(Select(table, tickers), Cond)
        names == TickersOf(hits)
    IN  IF tickers = <<>> THEN Raised("DatabaseError", 1)
        ELSE Returned([i \in 1 .. Len(names) |->
                        LET r == MaxRow(GroupOf(hits, names[i]))
                        IN  [Ticker |-> names[i], CloseDate |-> r.Date,
                             ClosePrice |-> r.Close]], 1)

\* queries.get_latest_close: SELECT max(Date),* ... GROUP BY Ticker.
get_latest_close(table, tickers, start_date, end_date) ==
    LET Cond(r) == InInterval(r, start_date, end_date)
        hits == SelectSeq(Select(table, tickers), Cond)
        names == TickersOf(hits)
    IN  IF tickers = <<>> THEN Raised("ValueError", 0)
        ELSE Returned([i \in 1 .. Len(names) |->
                        LET r == MaxRow(GroupOf(hits, names[i]))
                        IN  [Ticker |-> names[i], CloseDate |-> r.Date,
                             ClosePrice |-> r.Close]], 1)

\* a * b for two numbers held in hundredths.
Times(a, b) == (a * b) \div 100

RECURSIVE cumprod(_, _)
\* Series.cumprod() at position i of a column of values.
cumprod(col, i) == IF i = 1 THEN col[1] ELSE Times(cumprod(col, i - 1), col[i])

RECURSIVE sort_values(_)
\* df.sort_values(['Ticker', 'Date'], ascending=[True, False]) on a set of rows.
sort_values(S) ==
    IF S = {} THEN <<>>
    ELSE LET m == CHOOSE x \in S : \A y \in S :
                      \/ Rank(x.Ticker) < Rank(y.Ticker)
                      \/ x.Ticker = y.Ticker /\ x.Date >= y.Date
         IN  <<m>> \o sort_values(S \ {m})

\* queries.get_splits
get_splits(table, tickers) ==
    LET Cond(r) == r.Splits # NaN /\ r.Splits # 0
        hits == to_datetime(SelectSeq(Select(table, tickers), Cond))
        df == sort_values({[Date |-> hits[i].Date, Ticker |-> hits[i].Ticker,
                            Splits |-> hits[i].Splits] : i \in 1 .. Len(hits)})
        Col(t) == LET g == GroupOf(df, t) IN [i \in 1 .. Len(g) |-> g[i].Splits]
        Pos(i) == Len(GroupOf(SubSeq(df, 1, i), df[i].Ticker))
    IN  IF tickers = <<>> THEN Raised("ValueError", 0)
        ELSE Returned([i \in 1 .. Len(df) |->
                        [Date |-> df[i].Date, Ticker |-> df[i].Ticker,
                         Splits |-> df[i].Splits,
                         cumprod |-> cumprod(Col(df[i].Ticker), Pos(i))]], 1)

\* round(2) of the quotient n / d of two integers, d > 0, in units of the
\* quotient: to the nearest integer, ties to even.
RoundDiv(n, d) ==
    LET a == IF n < 0 THEN -n ELSE n
        q == a \div d
        r == a % d
        up == IF 2 * r > d \/ (2 * r = d /\ q % 2 = 1) THEN q + 1 ELSE q
    IN  IF n < 0 THEN -up ELSE up

\* (date - relativedelta(months=n)).isoformat(): the same day n months
\* earlier, or the last day of that month when it is shorter.
MonthsBefore(now, n) ==
    LET s == Strftime(now)
        total == s[1] * 12 + (s[2] - 1) - n
        y == total \div 12
        m == (total % 12) + 1
    IN  <<y, m, IF s[3] > DaysInMonth(y, m) THEN DaysInMonth(y, m) ELSE s[3]>>

\* x[x.notnull()].iloc[-1] if x.notnull().any() else np.nan
LastNotNull(col) ==
    LET Ok(v) == v # NaN
        vs == SelectSeq(col, Ok)
    IN  IF vs = <<>> THEN NaN ELSE vs[Len(vs)]

\* x[x > 0].iloc[-1] if (x > 0).any() else np.nan
LastPositive(col) ==
    LET Ok(v) == v # NaN /\ v > 0
        vs == SelectSeq(col, Ok)
    IN  IF vs = <<>> THEN NaN ELSE vs[Len(vs)]

RECURSIVE Sum(_)
\* Series.sum(): NaN counts as nothing.
Sum(col) ==
    IF col = <<>> THEN 0
    ELSE (IF Head(col) = NaN THEN 0 ELSE Head(col)) + Sum(Tail(col))

\* The aggregation calculate_div_yield makes of a non-empty frame.
YieldRows(df) ==
    LET names == TickersOf(df)
        Row(t) ==
            LET g == GroupOf(df, t)
                close == LastNotNull([i \in 1 .. Len(g) |-> g[i].Close])
                divs == [i \in 1 .. Len(g) |-> g[i].Dividends]
            IN  [Ticker |-> t,
                 Date |-> g[Len(g)].Date,
                 Close |-> close,
                 Dividends |-> Sum(divs),
                 Last |-> LastPositive(divs),
                 Count |-> Len(SelectSeq(divs, LAMBDA v : v # NaN /\ v > 0)),
                 Yield |-> IF close = NaN THEN NaN
                           ELSE RoundDiv(Sum(divs) * 10000, close)]
    IN  [i \in 1 .. Len(names) |-> Row(names[i])]

\* queries.calculate_div_yield
calculate_div_yield(table, now, tickers, lookback_months) ==
    LET got == get_prices(table, tickers, MonthsBefore(now, lookback_months),
                          NoDate, FALSE, FALSE)
    IN  IF got.status # "ok" \/ got.rows = <<>> THEN got
        ELSE Returned(YieldRows(got.rows), got.sql)

\* The label of the period of frequency freq a day lies in: 'W' is the week
\* ending on Sunday, 'M' the calendar month, each labelled by its last day.
PeriodOf(freq, d) ==
    IF freq = "W" THEN d - Weekday(d) + Sunday
    ELSE LET s == Strftime(d)
         IN  Strptime(<<s[1], s[2], DaysInMonth(s[1], s[2])>>)

RECURSIVE Periods(_, _, _)
\* The labels of the consecutive periods from the one labelled `from` to the
\* one labelled `to`.
Periods(freq, from, to) ==
    IF from >= to THEN <<from>>
    ELSE <<from>> \o Periods(freq, PeriodOf(freq, from + 1), to)

\* group.resample(freq).last() on the rows of one ticker in Date order: one
\* entry per period from the first row's to the last row's, holding the last
\* non-null value of each column among the period's rows, NaN when none.
resample_last(freq, g) ==
    LET bins == Periods(freq, PeriodOf(freq, g[1].Date), PeriodOf(freq, g[Len(g)].Date))
    IN  [j \in 1 .. Len(bins) |->
            LET In(r) == PeriodOf(freq, r.Date) = bins[j]
                rows == SelectSeq(g, In)
            IN  [Date |-> bins[j],
                 Ticker |-> IF rows = <<>> THEN "NaN" ELSE rows[Len(rows)].Ticker,
                 Close |-> LastNotNull([i \in 1 .. Len(rows) |-> rows[i].Close])]]

\* queries.resample_prices.  The resampler sorts each group by Date; pd.concat
\* of no frames raises ValueError.
resample_prices(table, tickers, freq, start_date, end_date) ==
    LET Cond(r) == InInterval(r, start_date, end_date)
        hits == SelectSeq(Select(table, tickers), Cond)
        names == TickersOf(hits)
        Group(t) == LET g == GroupOf(hits, t)
                    IN  to_datetime(IndexOrder({g[i] : i \in 1 .. Len(g)}))
    IN  IF tickers = <<>> THEN Raised("ValueError", 0)
        ELSE IF names = <<>> THEN Raised("ValueError", 1)
        ELSE Returned(concat([i \in 1 .. Len(names) |-> resample_last(freq, Group(names[i]))]), 1)

\* queries.calculate_performance: FirstPrices JOIN LastPrices ON Ticker WHERE
\* StartDate < EndDate, then Change and ChangePercent.
calculate_performance(table, tickers, start_date, end_date) ==
    LET Cond(r) == InInterval(r, start_date, end_date)
        hits == IF tickers = <<>> THEN SelectSeq(table, Cond)
                ELSE SelectSeq(Select(table, tickers), Cond)
        Moved(t) == LET g == GroupOf(hits, t)
                    IN  StrLess(MinRow(g).Date, MaxRow(g).Date)
        names == SelectSeq(TickersOf(hits), Moved)
        Row(t) ==
            LET f == MinRow(GroupOf(hits, t))
                l == MaxRow(GroupOf(hits, t))
                na == f.Close = NaN \/ l.Close = NaN
            IN  [Ticker |-> t,
                 StartDate |-> f.Date, StartPrice |-> f.Close,
                 EndDate |-> l.Date, EndPrice |-> l.Close,
                 Change |-> IF na THEN NaN ELSE l.Close - f.Close,
                 ChangePercent |-> IF na THEN NaN
                                   ELSE RoundDiv((l.Close - f.Close) * 10000, f.Close)]
    IN  Returned([i \in 1 .. Len(names) |-> Row(names[i])], 1)

\* ------------------------------------------------------- query calls
\* A row of HistoryTable with the given Close, Dividends and Splits (hundredths).
Stored(t, date, close, dividends, splits) ==
    [Date |-> date, Ticker |-> t, Open |-> close, High |-> close, Low |-> close,
     Close |-> close, Volume |-> 1000, Splits |-> splits, Dividends |-> dividends]

\* The rows the archive is made of when the queries run.  The last row of
\* "A" has no Close (Yahoo Finance sent NaN, stored as NULL).
QRows ==
    {Stored("A", <<2014, 12, 31>>, 9000, 0, 0),
     Stored("A", <<2015, 1, 5>>, 10500, 150, 300),
     Stored("A", <<2015, 3, 2>>, 10000, 250, 200),
     Stored("A", <<2015, 3, 3>>, NaN, 0, 0),
     Stored("B", <<2015, 1, 5>>, 20000, 0, 50),
     Stored("B", <<2015, 3, 2>>, 20500, 75, 0),
     Stored("LOW", <<2015, 1, 5>>, 30000, 100, 200),
     Stored("LOW", <<2015, 3, 2>>, 30300, 0, 0)}

RECURSIVE Arrangements(_, _)
\* The sequences of at most n distinct elements of S, in every order.
Arrangements(S, n) ==
    IF n = 0 THEN {<<>>}
    ELSE LET shorter == Arrangements(S, n - 1)
             Has(q, x) == \E i \in 1 .. Len(q) : q[i] = x
         IN  shorter \cup {Append(p[1], p[2]) :
                               p \in {c \in shorter \X S : ~Has(c[1], c[2])}}

\* A row of a batch whose insert raised: written on the connection, not
\* committed.
QPending == Stored("B", <<2015, 3, 3>>, 20600, 0, 0)

\* The day the queries run: Friday 2015-03-20.
QToday == 81

\* settings['default']['tickers'] when the queries run: as init_config writes
\* it (empty), or filled in.
DefaultSettings == {<<>>, default_tickers}

\* The tickers arguments of the query calls.
QRequests == {<<>>, <<"A">>, <<"B", "A">>, <<"LOW">>, <<"A", "LOW">>}

\* The (start_date, end_date) arguments of the query calls.
Windows ==
    {<<NoDate, NoDate>>, <<<<2015, 1, 5>>, NoDate>>, <<NoDate, <<2015, 3, 2>>>>,
     <<<<2015, 1, 5>>, <<2015, 3, 2>>>>}

\* A variant of Call: the statement is run in a "with conn:" block, which
\* commits the open transaction when it ends.
CallCommits(name, args, result) ==
    /\ pc = "idle" /\ qry.name = "none"
    /\ qry' = [name |-> name, args |-> args, before |-> Table,
               archive |-> archive, txn |-> txn]
    /\ res' = result
    /\ archive' = Table
    /\ txn' = <<>>
    /\ UNCHANGED <<envVars, passVars, last, aborted, events, calVars>>

\* The call `name` with the given arguments ends with `result`.
\* The statements are SELECTs, which neither open nor commit a transaction.
\* pandas rolls the connection back when a statement it sends fails, so
\* rows left pending by an insert that raised are dropped; the committed
\* rows stay.
Call(name, args, result) ==
    /\ pc = "idle" /\ qry.name = "none"
    /\ qry' = [name |-> name, args |-> args, before |-> Table,
               archive |-> archive, txn |-> txn]
    /\ res' = result
    /\ archive' = archive
    /\ txn' = IF result.status = "DatabaseError" THEN <<>> ELSE txn
    /\ UNCHANGED <<envVars, passVars, last, aborted, events, calVars>>

CallMaxDate ==
    \E ticker \in {"A", "B", "LOW"} :
        Call("get_max_date", [ticker |-> ticker],
             Returned(<<get_max_date(Table, ticker)>>, 1))

CallGetPrices ==
    \E tickers \in QRequests, w \in Windows, dividends \in BOOLEAN, splits \in BOOLEAN :
        Call("get_prices",
             [tickers |-> tickers, begin |-> w[1], end |-> w[2],
              dividends |-> dividends, splits |-> splits],
             get_prices(Table, tickers, w[1], w[2], dividends, splits))

CallHistory ==
    \E defaults \in DefaultSettings, tickers \in {<<>>, <<"A">>}, w \in Windows :
        Call("history",
             [defaults |-> defaults, tickers |-> tickers, begin |-> w[1], end |-> w[2]],
             history(Table, defaults, tickers, w[1], w[2], FALSE, FALSE))

CallLatestClose ==
    \E tickers \in QRequests, w \in Windows :
        Call("get_latest_close",
             [tickers |-> tickers, begin |-> w[1], end |-> w[2]],
             get_latest_close(Table, tickers, w[1], w[2]))

CallSplits ==
    \E tickers \in QRequests :
        Call("get_splits", [tickers |-> tickers], get_splits(Table, tickers))

CallDivYield ==
    \E tickers \in QRequests, months \in {1, 12} :
        Call("calculate_div_yield",
             [tickers |-> tickers, months |-> months],
             calculate_div_yield(Table, today, tickers, months))

CallResample ==
    \E tickers \in QRequests, freq \in {"W", "M"}, w \in Windows :
        Call("resample_prices",
             [tickers |-> tickers, freq |-> freq, begin |-> w[1], end |-> w[2]],
             resample_prices(Table, tickers, freq, w[1], w[2]))

CallPerformance ==
    \E tickers \in QRequests, w \in Windows :
        Call("calculate_performance",
             [tickers |-> tickers, begin |-> w[1], end |-> w[2]],
             calculate_performance(Table, tickers, w[1], w[2]))

\* --------------------------------------------------------- specification
\* After connect() on a new database file, on the first day; Yahoo Finance
\* has the bars of the day before, the updates CSV is as the operator left it.
Init ==
    /\ archive = <<>> /\ txn = <<>>
    /\ today = FirstToday
    /\ upstream = [t \in Tickers |-> {FirstToday - 1}]
    /\ updates \in UpdateFiles
    /\ pc = "idle" /\ req = <<>> /\ select = <<>> /\ data = <<>> /\ k = 0
    /\ pre = <<>> /\ calls = <<>> /\ raised = {} /\ outcome = "none"
    /\ last = NoCall /\ aborted = NoAbort
    /\ events = 0
    /\ day = 0 /\ nwd = -1
    /\ qry = NoQuery /\ res = NoResult

Next ==
    \/ \E tickers \in Requests : StartPass(tickers)
    \/ FetchOk
    \/ FetchRaise
    \/ Interrupt
    \/ SaveNothing
    \/ Save
    \/ SaveRaises
    \/ ReadRaises
    \/ \E rows \in Batches : Insert(rows)
    \/ \E rows \in Batches : \E n \in 0 .. Len(rows) : InsertRaises(rows, n)
    \/ init_schema
    \/ connect
    \/ Tick
    \/ \E t \in Tickers : Publish(t)

Spec == Init /\ [][Next]_vars

\* The calendar alone: next_work_day applied to each day of a range.
CalDays == (0 .. MaxCalDay) \cup {Strptime(<<2024, 6, 5>>), Strptime(<<2024, 6, 7>>)}

InitCal ==
    /\ archive = <<>> /\ txn = <<>>
    /\ today = FirstToday
    /\ upstream = [t \in Tickers |-> {}]
    /\ updates = NoFile
    /\ pc = "idle" /\ req = <<>> /\ select = <<>> /\ data = <<>> /\ k = 0
    /\ pre = <<>> /\ calls = <<>> /\ raised = {} /\ outcome = "none"
    /\ last = NoCall /\ aborted = NoAbort
    /\ events = 0
    /\ day \in CalDays /\ nwd = -1
    /\ qry = NoQuery /\ res = NoResult

\* next_work_day(day) is called.
CalStep ==
    /\ nwd = -1
    /\ nwd' = next_work_day(day)
    /\ UNCHANGED <<storeVars, envVars, passVars, last, aborted, events, day, qVars>>

NextCal == CalStep

SpecCal == InitCal /\ [][NextCal]_vars

\* The queries alone: each query call made on each archive of a range.
InitQ ==
    /\ archive \in Arrangements(QRows, MaxQRows)
    /\ txn \in {<<>>, <<QPending>>}
    /\ today = QToday
    /\ upstream = [t \in Tickers |-> {}]
    /\ updates = NoFile
    /\ pc = "idle" /\ req = <<>> /\ select = <<>> /\ data = <<>> /\ k = 0
    /\ pre = <<>> /\ calls = <<>> /\ raised = {} /\ outcome = "none"
    /\ last = NoCall /\ aborted = NoAbort
    /\ events = 0
    /\ day = 0 /\ nwd = -1
    /\ qry = NoQuery /\ res = NoResult

NextQ ==
    \/ CallGetPrices
    \/ CallHistory
    \/ CallLatestClose
    \/ CallSplits
    \/ CallDivYield
    \/ CallResample
    \/ CallPerformance
    \/ CallMaxDate

SpecQ == InitQ /\ [][NextQ]_vars


\* ------------------------------------------------------------ properties
\* The frame of the last pass before df.update, and the rows it handed to insert.
fetched == concat(data)

batch == SaveRows(data, updates)

\* The indices of rows whose key is not in table and not earlier in rows.
FirstNew(table, rows) ==
    {i \in 1 .. Len(rows) :
        /\ KeyOf(rows[i]) \notin Keys(table)
        /\ \A j \in 1 .. (i - 1) : KeyOf(rows[j]) # KeyOf(rows[i])}

\* C1: in every reachable state HistoryTable holds at most one row for each
\* (Ticker, Date) pair, whatever rows the callers hand to the store.
C1_UniqueKey ==
    \A i, j \in 1 .. Len(Table) : KeyOf(Table[i]) = KeyOf(Table[j]) => i = j

\* C1 witness: an insert call was handed a key that was taken (stored, or
\* earlier in its rows) and returned.
C1_Witness ==
    /\ last.op = "insert" /\ last.ok
    /\ Len(Table) < Len(last.before) + Len(last.rows)

\* C2: an insert call that returns leaves every row the table had, in place,
\* and adds exactly the first row of each key of the batch the table did
\* not have; everything is committed.
C2_InsertFirstWins ==
    (last.op = "insert" /\ last.ok) =>
        /\ txn = <<>>
        /\ SubSeq(Table, 1, Len(last.before)) = last.before
        /\ Len(Table) = Len(last.before) + Cardinality(FirstNew(last.before, last.rows))
        /\ {Table[i] : i \in (Len(last.before) + 1) .. Len(Table)}
               = {last.rows[i] : i \in FirstNew(last.before, last.rows)}

\* C2 witness: the batch held two rows with one key and different values.
C2_Witness ==
    /\ last.op = "insert" /\ last.ok
    /\ \E i, j \in 1 .. Len(last.rows) :
          /\ i < j
          /\ KeyOf(last.rows[i]) = KeyOf(last.rows[j])
          /\ last.rows[i] # last.rows[j]
          /\ i \in FirstNew(last.before, last.rows)

\* C4: a committed row keeps its place and its values in every step.
C4_StoredForEver ==
    [][/\ Len(archive') >= Len(archive)
       /\ \A i \in 1 .. Len(archive) : archive'[i] = archive[i]]_vars

\* C4 witness: a pass ran to its end, insert included, while the updates CSV
\* named the key of a row stored before the pass with another Close.
C4_Witness ==
    /\ outcome = "done" /\ last.op = "insert" /\ last.ok
    /\ updates.exists
    /\ \E i \in 1 .. Len(updates.records) : \E j \in 1 .. Len(pre) :
          /\ KeyOf(updates.records[i]) = KeyOf(pre[j])
          /\ ~IsNA("Close", updates.records[i].Close)
          /\ updates.records[i].Close # pre[j].Close
          /\ j <= Len(archive) /\ archive[j] = pre[j]

\* C8: next_work_day(d) is d+1 on Monday to Friday, d+3 when d+1 is a
\* Saturday, d+2 when d+1 is a Sunday; never a Saturday or Sunday; a
\* holiday (2015-01-01) is not skipped; 2024-06-07 gives 2024-06-10 and
\* 2024-06-05 gives 2024-06-06.
C8_NextWorkDay ==
    nwd # -1 =>
        /\ Weekday(day + 1) \in 0 .. 4 => nwd = day + 1
        /\ Weekday(day + 1) = Saturday => nwd = day + 3
        /\ Weekday(day + 1) = Sunday => nwd = day + 2
        /\ Weekday(nwd) \notin {Saturday, Sunday}
        /\ Weekday(day) = 4 => Weekday(nwd) = 0
        /\ Weekday(day) = 2 => Weekday(nwd) = 3
        /\ Strftime(day) = <<2014, 12, 31>> => Strftime(nwd) = <<2015, 1, 1>>
        /\ Strftime(day) = <<2024, 6, 7>> => Weekday(day) = 4 /\ Strftime(nwd) = <<2024, 6, 10>>
        /\ Strftime(day) = <<2024, 6, 5>> => Weekday(day) = 2 /\ Strftime(nwd) = <<2024, 6, 6>>

\* C8 witness: next_work_day was called on Friday 2024-06-07.
C8_Witness == nwd # -1 /\ Strftime(day) = <<2024, 6, 7>>

\* C10: after an insert call that raised, and until the next insert call,
\* the archive is what it was before the call.
C10_AtomicBatch == aborted.on => archive = aborted.before


\* A pass that ran to its end leaves what refresh_history as one step leaves.
PassAsWhole == outcome = "done" => Table = refresh_history(pre, req, raised)

\* C3: after a pass, the same pass run again at once (same tickers, same
\* day, same updates CSV, upstream answering every call as it did in the
\* first pass) leaves the table as it is: same rows, same values.
C3_Idempotent ==
    outcome \in {"done", "nothing"} =>
        refresh_history(Table, req, raised) = Table

\* C3 witness: the pass stored rows, and the second pass is handed rows again.
C3_Witness ==
    /\ outcome = "done"
    /\ Len(Table) > Len(pre)
    /\ FramesOf(SelectOf(Table, Resolve(req), today), raised) # <<>>

\* The tickers of a list that are not in a set, in order.
Without(list, S) == SelectSeq(list, LAMBDA t : t \notin S)

\* C5: a pass in which upstream calls raised runs to its end, calls upstream
\* for every selected ticker, and leaves the table that the pass called
\* with the other tickers alone leaves.
C5_FailureIsolated ==
    (outcome = "done" /\ raised # {} /\ Without(Resolve(req), raised) # <<>>) =>
        /\ calls = select
        /\ Table = refresh_history(pre, Without(Resolve(req), raised), {})

\* C5 witness: the first upstream call of a pass raised, the second returned
\* and its rows are in the table.
C5_Witness ==
    /\ outcome = "done" /\ Len(calls) = 2
    /\ calls[1][1] \in raised /\ calls[2][1] \notin raised
    /\ Len(Table) > Len(pre)

\* C6: after a pass, every fetched row with a new key that a record of the
\* updates CSV names is in the table with that record's non-null values.
C6_CorrectionStored ==
    (outcome = "done" /\ last.op = "insert" /\ last.ok /\ updates.exists) =>
        \A i \in 1 .. Len(fetched) : \A r \in 1 .. Len(updates.records) :
            (/\ KeyOf(fetched[i].row) = KeyOf(updates.records[r])
             /\ KeyOf(fetched[i].row) \notin Keys(pre)) =>
                \E j \in 1 .. Len(Table) :
                    /\ KeyOf(Table[j]) = KeyOf(updates.records[r])
                    /\ \A c \in Columns :
                          ~IsNA(c, updates.records[r][c]) => Table[j][c] = updates.records[r][c]

\* C7: every field of a fetched row that no record of the updates CSV with
\* the row's own key gives a value is handed to insert as fetched; without
\* the file, or with no record in it, so is the whole batch.
C7_OverlayFrame ==
    (outcome = "done" /\ last.op = "insert") =>
        /\ \A i \in 1 .. Len(fetched) : \A c \in Columns :
              (~\E r \in 1 .. Len(updates.records) :
                    /\ KeyOf(updates.records[r]) = KeyOf(fetched[i].row)
                    /\ ~IsNA(c, updates.records[r][c])) =>
                 last.rows[i][c] = fetched[i].row[c]
        /\ updates.records = <<>> => last.rows = itertuples(fetched)

\* The greatest Date stored for a ticker, or 2014-12-31, and the resume date.
MaxStored(table, t) ==
    LET ds == {table[i].Date : i \in {j \in 1 .. Len(table) : table[j].Ticker = t}}
    IN  IF ds = {} THEN <<2014, 12, 31>>
        ELSE CHOOSE m \in ds : \A x \in ds : ~StrLess(m, x)

ResumeDate(table, t) == next_work_day(Strptime(MaxStored(table, t)))

Range(q) == {q[i] : i \in 1 .. Len(q)}

\* C9: a pass calls upstream for a ticker exactly when its resume date is
\* today or earlier, with start = the resume date; it reports nothing to do
\* exactly when no ticker of the pass is so, and then calls nothing and
\* writes nothing.
C9_CallIffStale ==
    /\ outcome = "done" =>
          Range(calls) = {<<t, ResumeDate(pre, t)>> :
                             t \in {u \in Range(Resolve(req)) : ResumeDate(pre, u) <= today}}
    /\ outcome = "nothing" => calls = <<>> /\ Table = pre
    /\ outcome # "none" =>
          (outcome = "nothing" <=> \A t \in Range(Resolve(req)) : ResumeDate(pre, t) > today)

\* ------------------------------------------------- properties of queries
\* The rows of the archive the query ran on.
Archived == Range(qry.before)

\* A returned row with its Timestamp written as the stored Date again.
AsStored(r) == [r EXCEPT !.Date = Strftime(@)]

\* The calendar day of a stored Date.
DayOf(date) == Strptime(date)

\* r is dated within [begin, end), each limit applying when it is given.
InWindow(r, begin, end) ==
    /\ begin = NoDate \/ DayOf(r.Date) >= DayOf(begin)
    /\ end = NoDate \/ DayOf(r.Date) < DayOf(end)

\* The rows history is to return for a symbol set and restrictions.
Matching(symbols, a) ==
    {r \in Archived :
        /\ r.Ticker \in symbols
        /\ InWindow(r, a.begin, a.end)
        /\ a.dividends => r.Dividends > 0
        /\ a.splits => r.Splits # 0}

\* The symbols of a request are all spelled unlike the columns of the table.
Plain(tickers) == \A i \in 1 .. Len(tickers) : TickerIs([Ticker |-> tickers[i]], tickers[i])

\* C11: get_prices over a non-empty symbol set returns exactly the stored
\* rows whose Ticker is in the set and that satisfy every restriction given
\* (Date >= begin, Date < end, Dividends > 0, Splits != 0), each once.
C11_HistoryExact ==
    (qry.name = "get_prices" /\ qry.args.tickers # <<>>) =>
        /\ res.status = "ok"
        /\ Cardinality(Range(res.rows)) = Len(res.rows)
        /\ {AsStored(r) : r \in Range(res.rows)} = Matching(Range(qry.args.tickers), qry.args)

\* C11 for requests whose symbols are all spelled unlike a column.
C11_PlainTickers ==
    (qry.name = "get_prices" /\ qry.args.tickers # <<>> /\ Plain(qry.args.tickers)) =>
        /\ res.status = "ok"
        /\ Cardinality(Range(res.rows)) = Len(res.rows)
        /\ {AsStored(r) : r \in Range(res.rows)} = Matching(Range(qry.args.tickers), qry.args)

\* A row dated exactly begin is returned and a row dated exactly end is not.
C11_PlainBoundary ==
    /\ qry.name = "get_prices" /\ qry.args.tickers = <<"A">>
    /\ qry.args.begin = <<2015, 1, 5>> /\ qry.args.end = <<2015, 3, 2>>
    /\ ~qry.args.dividends /\ ~qry.args.splits
    /\ Len(qry.before) = 3 /\ Len(res.rows) = 1

\* C12: history never fails for lack of symbols or of matches: with zero
\* symbols it returns what it returns for the configured default set, and it
\* returns an empty result when that set is empty too or when no row matches.
C12_HistoryNeverFails ==
    qry.name = "history" =>
        /\ res.status = "ok"
        /\ qry.args.tickers = <<>> =>
              res = history(qry.before, qry.args.defaults, qry.args.defaults,
                            qry.args.begin, qry.args.end, FALSE, FALSE)
        /\ (qry.args.tickers = <<>> /\ qry.args.defaults = <<>>) => res.rows = <<>>

\* The stored rows of symbol t dated within the window of the call.
InWindowOf(t) == {r \in Archived : r.Ticker = t /\ InWindow(r, qry.args.begin, qry.args.end)}

\* The latest-dated and the earliest-dated row of a non-empty set of rows of
\* one symbol.
Latest(S) == CHOOSE r \in S : \A x \in S : DayOf(x.Date) <= DayOf(r.Date)

Earliest(S) == CHOOSE r \in S : \A x \in S : DayOf(x.Date) >= DayOf(r.Date)

\* The entries of the result for symbol t.
EntriesOf(t) == {i \in 1 .. Len(res.rows) : res.rows[i].Ticker = t}

\* What latest_close is to return for the symbols of a set.
LatestCloseOk(symbols) ==
    /\ res.status = "ok"
    /\ \A t \in symbols :
          IF InWindowOf(t) = {} THEN EntriesOf(t) = {}
          ELSE /\ Cardinality(EntriesOf(t)) = 1
               /\ \A i \in EntriesOf(t) :
                     /\ res.rows[i].CloseDate = Latest(InWindowOf(t)).Date
                     /\ res.rows[i].ClosePrice = Latest(InWindowOf(t)).Close

\* C13: get_latest_close returns, for each requested symbol with a stored row
\* in [begin, end), exactly one entry: the greatest Date of the symbol's rows
\* in the window and the Close of that row; for the other requested symbols,
\* no entry.
C13_LatestClose ==
    (qry.name = "get_latest_close" /\ qry.args.tickers # <<>>) =>
        LatestCloseOk(Range(qry.args.tickers))

\* C13 for requests whose symbols are all spelled unlike a column.
C13_PlainTickers ==
    (qry.name = "get_latest_close" /\ qry.args.tickers # <<>> /\ Plain(qry.args.tickers)) =>
        LatestCloseOk(Range(qry.args.tickers))

\* C14: get_latest_close, get_splits and resample_prices called with no
\* symbol raise ValueError before any statement is sent to the database; no
\* result is returned and the archive is as it was.
C14_EmptySetRejected ==
    (qry.name \in {"get_latest_close", "get_splits", "resample_prices"}
       /\ qry.args.tickers = <<>>) =>
        /\ res.status = "ValueError"
        /\ res.sql = 0
        /\ res.rows = <<>>
        /\ archive = qry.archive /\ txn = qry.txn

C14_Witness ==
    /\ qry.name = "get_latest_close" /\ qry.args.tickers = <<>>
    /\ Len(archive) = MaxQRows
    /\ res.status = "ValueError"

\* The stored rows of symbol t that record a split.
SplitsOf(t) == {r \in Archived : r.Ticker = t /\ r.Splits # 0}

RECURSIVE Product(_)
\* The product of the Splits of a set of rows (hundredths).
Product(S) ==
    IF S = {} THEN 100
    ELSE LET r == CHOOSE x \in S : TRUE
         IN  Times(r.Splits, Product(S \ {r}))

\* What splits is to return for the symbols of a set.
SplitsOk(symbols) ==
    /\ res.status = "ok"
    /\ Cardinality(Range(res.rows)) = Len(res.rows)
    /\ {[Date |-> Strftime(e.Date), Ticker |-> e.Ticker, Splits |-> e.Splits] :
            e \in Range(res.rows)}
         = {[Date |-> r.Date, Ticker |-> r.Ticker, Splits |-> r.Splits] :
               r \in UNION {SplitsOf(t) : t \in symbols}}
    /\ \A i, j \in 1 .. Len(res.rows) :
          (i < j /\ res.rows[i].Ticker = res.rows[j].Ticker) =>
              res.rows[i].Date > res.rows[j].Date
    /\ \A i \in 1 .. Len(res.rows) :
          res.rows[i].cumprod =
              Product({r \in SplitsOf(res.rows[i].Ticker) :
                          DayOf(r.Date) >= res.rows[i].Date})

\* C15: get_splits returns exactly the stored rows of the requested symbols
\* with Splits != 0, each symbol's by Date descending, and the cumulative
\* value of a row is the product of the Splits of the row and of the rows of
\* the same symbol with a later Date.
C15_SplitHistory ==
    (qry.name = "get_splits" /\ qry.args.tickers # <<>>) =>
        SplitsOk(Range(qry.args.tickers))

\* C15 for requests whose symbols are all spelled unlike a column.
C15_PlainTickers ==
    (qry.name = "get_splits" /\ qry.args.tickers # <<>> /\ Plain(qry.args.tickers)) =>
        SplitsOk(Range(qry.args.tickers))

\* Ratio 2 on the later date and ratio 3 on the earlier one give 2 and 6,
\* next to a split of another symbol.
C15_PlainExample ==
    /\ qry.name = "get_splits" /\ qry.args.tickers = <<"B", "A">>
    /\ Len(res.rows) = 3
    /\ res.rows[1].Splits = 200 /\ res.rows[1].cumprod = 200
    /\ res.rows[2].Splits = 300 /\ res.rows[2].cumprod = 600
    /\ res.rows[3].Ticker = "B" /\ res.rows[3].cumprod = 50

\* The stored rows of symbol t dated on or after the day `months` months
\* before today: the trailing window of the call.
Trailing(t) ==
    {r \in Archived :
        r.Ticker = t /\ ~StrLess(r.Date, MonthsBefore(today, qry.args.months))}

RECURSIVE Total(_)
\* The sum of the Dividends of a set of rows.
Total(S) ==
    IF S = {} THEN 0
    ELSE LET r == CHOOSE x \in S : TRUE
         IN  r.Dividends + Total(S \ {r})

\* The rows of a set with a Close, and those that pay a dividend.
Priced(S) == {r \in S : r.Close # NaN}

Paying(S) == {r \in S : r.Dividends > 0}

\* What dividend_yield is to report as sum, count and yield in each row.
YieldOk ==
    \A i \in 1 .. Len(res.rows) :
        LET e == res.rows[i]
            S == Trailing(e.Ticker)
        IN  /\ e.Dividends = Total(S)
            /\ e.Count = Cardinality(Paying(S))
            /\ Priced(S) # {} =>
                  e.Yield = RoundDiv(100 * e.Dividends * 100, Latest(Priced(S)).Close)

\* C16: calculate_div_yield reports for each symbol Dividends = the sum of
\* Dividends over its rows in the trailing window, Count = the number of
\* those rows with Dividends > 0, and Yield = 100 * Dividends / latest Close
\* rounded to 2 decimals.
C16_Yield ==
    (qry.name = "calculate_div_yield" /\ res.status = "ok") => YieldOk

\* C16 for requests whose symbols are all spelled unlike a column.
C16_PlainTickers ==
    (qry.name = "calculate_div_yield" /\ res.status = "ok" /\ Plain(qry.args.tickers)) =>
        YieldOk

\* Close 100.00 on the latest date and dividends of 4.00 in twelve months
\* give a yield of 4.00.
C16_PlainExample ==
    /\ qry.name = "calculate_div_yield" /\ qry.args.tickers = <<"A">>
    /\ qry.args.months = 12
    /\ Len(res.rows) = 1
    /\ res.rows[1].Close = 10000 /\ res.rows[1].Dividends = 400
    /\ res.rows[1].Count = 2 /\ res.rows[1].Yield = 400

\* What dividend_yield is to report as Date, Close and Last in each row.
MostRecentOk ==
    \A i \in 1 .. Len(res.rows) :
        LET e == res.rows[i]
            S == Trailing(e.Ticker)
        IN  /\ Priced(S) # {} =>
                  /\ e.Close = Latest(Priced(S)).Close
                  /\ Strftime(e.Date) = Latest(Priced(S)).Date
            /\ Paying(S) # {} => e.Last = Latest(Paying(S)).Dividends

\* C17: the Date and Close calculate_div_yield reports for a symbol are those
\* of the greatest-dated row of the symbol in the window with a non-null
\* Close, and Last is the Dividends of the greatest-dated row with
\* Dividends > 0, whatever the order of the rows in the archive.
C17_MostRecent ==
    (qry.name = "calculate_div_yield" /\ res.status = "ok") => MostRecentOk

\* C17 for requests whose symbols are all spelled unlike a column.
C17_PlainTickers ==
    (qry.name = "calculate_div_yield" /\ res.status = "ok" /\ Plain(qry.args.tickers)) =>
        MostRecentOk

\* C17 for such requests, the Date taken from the symbol's greatest-dated row.
C17_PlainLastDate ==
    (qry.name = "calculate_div_yield" /\ res.status = "ok" /\ Plain(qry.args.tickers)) =>
        \A i \in 1 .. Len(res.rows) :
            LET e == res.rows[i]
                S == Trailing(e.Ticker)
            IN  /\ Priced(S) # {} => e.Close = Latest(Priced(S)).Close
                /\ Strftime(e.Date) = Latest(S).Date
                /\ Paying(S) # {} => e.Last = Latest(Paying(S)).Dividends

\* C18: calculate_div_yield returns a row for a requested symbol if and only
\* if the symbol has a stored row in the trailing window.
C18_RowIffInWindow ==
    (qry.name = "calculate_div_yield" /\ qry.args.tickers # <<>>) =>
        /\ res.status = "ok"
        /\ \A t \in Range(qry.args.tickers) :
              Cardinality(EntriesOf(t)) = IF Trailing(t) = {} THEN 0 ELSE 1

\* C18 for requests whose symbols are all spelled unlike a column.
C18_PlainTickers ==
    (qry.name = "calculate_div_yield" /\ qry.args.tickers # <<>> /\ Plain(qry.args.tickers)) =>
        /\ res.status = "ok"
        /\ \A t \in Range(qry.args.tickers) :
              Cardinality(EntriesOf(t)) = IF Trailing(t) = {} THEN 0 ELSE 1

\* One requested symbol has rows in the window and the other has none.
C18_PlainExample ==
    /\ qry.name = "calculate_div_yield" /\ qry.args.tickers = <<"B", "A">>
    /\ qry.args.months = 1
    /\ Trailing("A") # {} /\ Trailing("B") = {}
    /\ \E r \in Archived : r.Ticker = "B"
    /\ Len(res.rows) = 1

\* The periods of the call's frequency in which symbol t has a stored row in
\* the window.
PeriodsWith(t) == {PeriodOf(qry.args.freq, DayOf(r.Date)) : r \in InWindowOf(t)}

\* The rows of symbol t in the window that lie in period p.
InPeriod(t, p) == {r \in InWindowOf(t) : PeriodOf(qry.args.freq, DayOf(r.Date)) = p}

\* What resample is to return for the symbols of a set: one entry for each
\* symbol and period with rows, and no other entry.
ResampleOk(symbols) ==
    /\ res.status = "ok"
    /\ \A t \in symbols : \A p \in PeriodsWith(t) :
          /\ Cardinality({i \in EntriesOf(t) : res.rows[i].Date = p}) = 1
          /\ \A i \in EntriesOf(t) :
                res.rows[i].Date = p => res.rows[i].Close = Latest(InPeriod(t, p)).Close
    /\ \A i \in 1 .. Len(res.rows) :
          /\ res.rows[i].Ticker \in symbols
          /\ res.rows[i].Date \in PeriodsWith(res.rows[i].Ticker)

\* The call has rows to return for a symbol of the set.
SomeInWindow(symbols) == \E t \in symbols : InWindowOf(t) # {}

\* C19: resample_prices returns, for each requested symbol and each period in
\* which the symbol has a stored row in the window, one entry with the Close
\* of the symbol's latest-dated row of the period, and no entry for a period
\* in which the symbol has no row.
C19_Resample ==
    (qry.name = "resample_prices" /\ SomeInWindow(Range(qry.args.tickers))) =>
        ResampleOk(Range(qry.args.tickers))

\* C19 for requests of symbols spelled unlike a column, on rows that all
\* have a Close and leave no period empty between two periods with rows.
C19_PlainNoGap ==
    (/\ qry.name = "resample_prices" /\ SomeInWindow(Range(qry.args.tickers))
     /\ Plain(qry.args.tickers)
     /\ \A r \in Archived : r.Close # NaN
     /\ \A t \in Range(qry.args.tickers) : \A p, q \in PeriodsWith(t) :
           p < q => PeriodOf(qry.args.freq, p + 1) \in PeriodsWith(t))
       => ResampleOk(Range(qry.args.tickers))

\* Two rows of a symbol in one period give one entry, with the later Close.
C19_PlainExample ==
    /\ qry.name = "resample_prices" /\ qry.args.tickers = <<"A">>
    /\ qry.args.freq = "M" /\ qry.args.begin = <<2015, 1, 5>>
    /\ Len(res.rows) = 3
    /\ res.rows[2].Ticker = "NaN" /\ res.rows[2].Close = NaN

\* The symbols performance is asked about: those requested, or every stored
\* symbol when none is requested.
AskedSymbols ==
    IF qry.args.tickers = <<>> THEN {r.Ticker : r \in Archived}
    ELSE Range(qry.args.tickers)

\* What performance is to return for the symbols of a set.
PerformanceOk(symbols) ==
    /\ res.status = "ok"
    /\ \A t \in symbols :
          IF Cardinality({r.Date : r \in InWindowOf(t)}) < 2 THEN EntriesOf(t) = {}
          ELSE /\ Cardinality(EntriesOf(t)) = 1
               /\ \A i \in EntriesOf(t) :
                     LET e == res.rows[i]
                         first == Earliest(InWindowOf(t))
                         final == Latest(InWindowOf(t))
                     IN  /\ e.StartDate = first.Date /\ e.StartPrice = first.Close
                         /\ e.EndDate = final.Date /\ e.EndPrice = final.Close
                         /\ DayOf(e.StartDate) < DayOf(e.EndDate)
                         /\ (first.Close # NaN /\ final.Close # NaN) =>
                               /\ e.Change = e.EndPrice - e.StartPrice
                               /\ e.ChangePercent = RoundDiv(100 * e.Change * 100, e.StartPrice)

\* C20: calculate_performance returns a row for a symbol if and only if the
\* symbol has rows on two distinct dates in the window; the row holds the
\* Date and Close of the symbol's earliest and latest rows in the window,
\* Change = EndPrice - StartPrice and ChangePercent = 100 * Change /
\* StartPrice, rounded to 2 decimals.
C20_Performance ==
    qry.name = "calculate_performance" => PerformanceOk(AskedSymbols)

\* C20 for requests whose symbols are all spelled unlike a column.
C20_PlainTickers ==
    (qry.name = "calculate_performance" /\ Plain(qry.args.tickers)) =>
        PerformanceOk(AskedSymbols)

\* A symbol with one row in the window is absent next to one with two, whose
\* price fell.
C20_PlainExample ==
    /\ qry.name = "calculate_performance" /\ qry.args.tickers = <<"B", "A">>
    /\ qry.args.begin = <<2015, 1, 5>> /\ qry.args.end = NoDate
    /\ Cardinality(InWindowOf("A")) = 2 /\ Cardinality(InWindowOf("B")) = 1
    /\ Len(res.rows) = 1
    /\ res.rows[1].Change = -500 /\ res.rows[1].ChangePercent = -476


\* ---------------------------------------------------------------- C21
\* C21: a query (get_prices / history, get_latest_close, get_splits,
\* calculate_div_yield, resample_prices, calculate_performance,
\* get_max_date) leaves the archive as it was, whether it returned a result
\* or raised: the committed rows and their order are those of before the
\* call, and no pending row has been committed or added by it.
C21_QueriesReadOnly ==
    qry.name # "none" =>
        /\ archive = qry.archive
        /\ txn \in {qry.txn, <<>>}

\* A query that raised and one that returned, both on a connection holding
\* a pending row next to committed ones.
C21_Witness ==
    /\ qry.name = "history" /\ res.status = "DatabaseError"
    /\ qry.txn # <<>> /\ Len(archive) = MaxQRows

C21_WitnessReturned ==
    /\ qry.name = "calculate_performance" /\ res.status = "ok" /\ res.rows # <<>>
    /\ txn # <<>> /\ Len(archive) = MaxQRows


\* ---------------------------------------------------------------- C22
\* The argument lists of the passes whose fetch loop is followed: those of
\* Requests and a list naming a ticker twice (ty fetch A A).
PassRequests == Requests \cup {<<"A", "A">>}

\* Every call of stock.history returns or raises, and the statements after
\* the loop are executed.
PassFairness ==
    /\ WF_vars(FetchOk \/ FetchRaise)
    /\ WF_vars(SaveNothing \/ Save \/ SaveRaises)

\* The passes of one day on one database, for the properties of progress.
InitLoop == Init /\ updates = NoFile

NextLoop ==
    \/ \E tickers \in PassRequests : StartPass(tickers)
    \/ FetchOk
    \/ FetchRaise
    \/ Interrupt
    \/ SaveNothing
    \/ Save
    \/ SaveRaises

SpecLoop == InitLoop /\ [][NextLoop]_vars /\ PassFairness

\* The tickers of a list of (ticker, refresh_date) pairs.
SymbolsOf(pairs) == {pairs[i][1] : i \in 1 .. Len(pairs)}

\* The upstream calls made so far are the first entries of select, one call
\* for each entry, in the order of select.
CallsFollowSelect ==
    /\ Len(calls) <= Len(select)
    /\ \A i \in 1 .. Len(calls) : calls[i] = select[i]

\* select keeps the order of the requested list: the selected tickers are
\* the entries of the resolved list that were found stale, in list order.
SelectFollowsRequest ==
    \E f \in [1 .. Len(select) -> 1 .. Len(Resolve(req))] :
        /\ \A i \in 1 .. Len(select) : Resolve(req)[f[i]] = select[i][1]
        /\ \A i, j \in 1 .. Len(select) : i < j => f[i] < f[j]

\* C22: within a pass the selected symbols are fetched in the order of the
\* requested list, and when the pass has gone through its loop the upstream
\* was called exactly once for each selected symbol, whether the call
\* returned or raised.
C22_OncePerSymbol ==
    (pc \in {"fetch", "save"} \/ outcome \in {"done", "store error", "interrupted"}) =>
        /\ SelectFollowsRequest
        /\ CallsFollowSelect
        /\ \A t \in SymbolsOf(calls) :
               Cardinality({i \in 1 .. Len(calls) : calls[i][1] = t}) = 1
        /\ (pc = "save" \/ outcome \in {"done", "store error"}) =>
               SymbolsOf(calls) = SymbolsOf(select)

\* C22, for each entry of the list: one call for each selected entry, in
\* order, a raising call is followed by the call for the next entry, and a
\* pass that was not interrupted has made the call of every entry.
C22_OncePerEntry ==
    (pc \in {"fetch", "save"} \/ outcome \in {"done", "store error", "interrupted"}) =>
        /\ SelectFollowsRequest
        /\ CallsFollowSelect
        /\ Len(calls) = k
        /\ (pc = "save" \/ outcome \in {"done", "store error"}) => calls = select

\* C22, for requests naming no ticker twice: once for each symbol.
C22_NoDuplicate ==
    (\A i, j \in 1 .. Len(req) : req[i] = req[j] => i = j) => C22_OncePerSymbol

\* A pass of two symbols whose first call raised and which made the second
\* call and ended.
C22_RaisedThenNext ==
    /\ outcome = "done" /\ Len(select) = 2 /\ calls = select
    /\ select[1][1] \in raised /\ select[2][1] \notin raised

\* C22: a pass terminates, and unless the user interrupts it every selected
\* entry's call is made.
C22_Terminates == (pc # "idle") ~> (pc = "idle")

C22_AllAttempted == (pc = "fetch") ~> (calls = select \/ outcome = "interrupted")


\* ---------------------------------------------------------------- C23
\* Every Date stored for ticker t when the pass began is before day start.
AfterStored(t, start) ==
    \A j \in 1 .. Len(pre) : pre[j].Ticker = t => Strptime(pre[j].Date) < start

\* C23: the start date of every upstream call of a pass is strictly later
\* than every Date stored for that symbol when the pass began, and (yf
\* returning bars from the start date on) no fetched row has a key the
\* archive already holds.
C23_StartAfterStored ==
    /\ \A i \in 1 .. Len(calls) : AfterStored(calls[i][1], calls[i][2])
    /\ \A i \in 1 .. Len(fetched) : KeyOf(fetched[i].row) \notin Keys(pre)

\* C23 for symbols spelled unlike a column: start later than every stored
\* Date, never a Saturday or Sunday, and every fetched row is dated from the
\* start on and has a key the archive does not hold.
C23_PlainTickers ==
    /\ \A i \in 1 .. Len(calls) :
          TickerIs([Ticker |-> calls[i][1]], calls[i][1]) =>
              /\ AfterStored(calls[i][1], calls[i][2])
              /\ Weekday(calls[i][2]) \notin {Saturday, Sunday}
    /\ \A i \in 1 .. Len(fetched) :
          LET r == fetched[i].row
          IN  TickerIs(r, r.Ticker) =>
                  /\ KeyOf(r) \notin Keys(pre)
                  /\ \A j \in 1 .. Len(pre) :
                         pre[j].Ticker = r.Ticker => StrLess(pre[j].Date, r.Date)

\* A is stored for Friday and not for Thursday, Yahoo Finance holds both
\* Thursday's and Saturday's bar of A, and the pass of Saturday asks for
\* neither: it finds nothing to do.
C23_GapExample ==
    /\ today = 5 /\ outcome = "nothing" /\ req = <<"A">>
    /\ {3, 5} \subseteq upstream["A"]
    /\ {pre[j].Date : j \in {n \in 1 .. Len(pre) : pre[n].Ticker = "A"}} = {Strftime(4)}

\* A call for A made when rows of A were stored.
C23_PlainExample ==
    /\ outcome = "done" /\ \E i \in 1 .. Len(calls) : calls[i][1] = "A"
    /\ \E j \in 1 .. Len(pre) : pre[j].Ticker = "A"
    /\ \E i \in 1 .. Len(fetched) : fetched[i].row.Ticker = "A"


\* ---------------------------------------------------------------- C24
\* While a pass plans and fetches, and after it stopped before its insert,
\* the connection reads the rows it read when the pass began.
AsBeforePass ==
    (pc \in {"fetch", "save"} \/ outcome \in {"interrupted", "read error"}) =>
        Table = pre

\* The steps of a pass other than its insert leave the committed rows and
\* the open transaction alone; the step that ends the pass with "done"
\* writes the whole batch in one insert.
OneInsert ==
    /\ (pc = "fetch" \/ pc' = "fetch") => archive' = archive /\ txn' = txn
    /\ (pc = "save" /\ outcome' \notin {"done", "store error"}) =>
           archive' = archive /\ txn' = txn
    /\ (pc = "save" /\ outcome' = "store error") => archive' = archive
    /\ (pc = "save" /\ outcome' = "done") =>
           IF data = <<>> THEN archive' = archive /\ txn' = txn
           ELSE archive' = executemany(pre, batch) /\ txn' = <<>>

\* C24: a pass writes to the archive at most once, in one insert made after
\* the last fetch: through planning and fetching the archive is as it was
\* when the pass began, and a pass stopped before the insert by an interrupt
\* or by an error reading the updates file leaves it so, with none of the
\* bars it fetched stored.
C24_SingleWrite == []AsBeforePass /\ [][OneInsert]_vars

\* A pass interrupted after it fetched bars, which are in no stored row.
C24_Witness ==
    /\ outcome = "interrupted" /\ data # <<>> /\ k < Len(select)
    /\ Table = pre
    /\ \A i \in 1 .. Len(fetched) : KeyOf(fetched[i].row) \notin Keys(Table)

\* A pass of two symbols stopped by the updates file after both were fetched.
C24_ReadError ==
    /\ outcome = "read error" /\ Len(data) = 2
    /\ Table = pre
    /\ \A i \in 1 .. Len(fetched) : KeyOf(fetched[i].row) \notin Keys(Table)


\* ---------------------------------------------------------------- C25
\* The stored rows of ticker t.
RowsOf(table, t) == {r \in Range(table) : r.Ticker = t}

\* The pass called upstream for ticker t and got nothing: the call raised,
\* or it returned a frame of no bars.
FetchedNothing(t) ==
    /\ t \in SymbolsOf(calls)
    /\ t \in raised \/ \A j \in 1 .. Len(fetched) : fetched[j].row.Ticker # t

\* The pass stored a row of ticker t dated today or later.
StoredToday(t) ==
    \E r \in RowsOf(Table, t) \ RowsOf(pre, t) : Strptime(r.Date) >= today

\* After a finished pass: a ticker whose call raised or returned no bar has
\* the stored rows it had, and a pass started now selects it with the start
\* date of the call just made.
NoTrace ==
    \A i \in 1 .. Len(calls) :
        FetchedNothing(calls[i][1]) =>
            /\ RowsOf(Table, calls[i][1]) = RowsOf(pre, calls[i][1])
            /\ SelectOf(Table, <<calls[i][1]>>, today) = <<calls[i]>>

\* After a finished pass: a ticker for which it stored a row dated today or
\* later is not selected by a pass started now.
SkippedOnceCurrent ==
    \A t \in Tickers : StoredToday(t) => SelectOf(Table, <<t>>, today) = <<>>

\* C25: a failed or empty fetch leaves no trace (the symbol's stored rows are
\* unchanged and the next pass of the day selects it with the same resume
\* date), and once a pass stored a bar of a symbol dated today or later the
\* further passes of the day skip the symbol.
C25_NoTrace ==
    outcome = "done" => NoTrace /\ SkippedOnceCurrent

\* C25 when no record of the updates file is laid over the batch, for the
\* symbols spelled unlike a column.
C25_PlainNoOverlay ==
    (outcome = "done" /\ (~updates.exists \/ updates.records = <<>>)) =>
        /\ \A i \in 1 .. Len(calls) :
              (TickerIs([Ticker |-> calls[i][1]], calls[i][1])
                 /\ FetchedNothing(calls[i][1])) =>
                  /\ RowsOf(Table, calls[i][1]) = RowsOf(pre, calls[i][1])
                  /\ SelectOf(Table, <<calls[i][1]>>, today) = <<calls[i]>>
        /\ \A t \in Tickers :
              (TickerIs([Ticker |-> t], t) /\ StoredToday(t)) =>
                  SelectOf(Table, <<t>>, today) = <<>>

\* A pass in which the call for A raised while rows of A were stored, and
\* one that stored today's bar of A.
C25_FailedExample ==
    /\ outcome = "done" /\ "A" \in raised /\ RowsOf(pre, "A") # {}
    /\ ~updates.exists

C25_StoredExample ==
    /\ outcome = "done" /\ StoredToday("A") /\ ~updates.exists

\* A pass in which the call for A returned no bar.
C25_EmptyExample ==
    /\ outcome = "done" /\ FetchedNothing("A") /\ "A" \notin raised /\ ~updates.exists


\* ------------------------------------------------- class StockDatabase
\* StockDatabase._next_work_day
StockDatabase_next_work_day(date) ==
    LET next == date + 1
    IN  CASE Weekday(next) = Saturday -> next + 2
          [] Weekday(next) = Sunday -> next + 1
          [] OTHER -> next

\* A variant of _max_day: WHERE Ticker='<ticker>', a string whatever the
\* ticker is spelled like.
StockDatabase_max_day_literal(table, ticker) ==
    LET dates == {r.Date : r \in {x \in Range(table) : x.Ticker = ticker}}
    IN  IF dates = {} THEN Strptime(<<2014, 12, 31>>)
        ELSE Strptime(CHOOSE m \in dates : \A x \in dates : ~StrLess(m, x))

\* StockDatabase._max_day with default None:
\* SELECT max(Date) FROM HistoryTable WHERE Ticker="<ticker>"
StockDatabase_max_day(table, ticker) ==
    LET dates == {r.Date : r \in {x \in Range(table) : TickerIs(x, ticker)}}
    IN  IF dates = {} THEN Strptime(<<2014, 12, 31>>)
        ELSE Strptime(CHOOSE m \in dates : \A x \in dates : ~StrLess(m, x))

\* StockDatabase.tickers: self._default_tickers if not tickers.
StockDatabase_tickers(tickers) ==
    IF Len(tickers) = 0 THEN default_tickers ELSE tickers

RECURSIVE StockDatabase_select(_, _, _)
\* The list select of _refresh_history after its first loop, over the
\* tickers from position i on.
StockDatabase_select(table, names, i) ==
    IF i > Len(names) THEN <<>>
    ELSE LET refresh_date ==
                 StockDatabase_next_work_day(StockDatabase_max_day(table, names[i]))
             rest == StockDatabase_select(table, names, i + 1)
         IN  IF today >= refresh_date THEN <<<<names[i], refresh_date>>>> \o rest
             ELSE rest

RECURSIVE StockDatabase_data(_, _, _)
\* The list data of _refresh_history after its second loop over the first n
\* entries of sel, the calls for the tickers in fails raising.
StockDatabase_data(sel, fails, n) ==
    IF n = 0 THEN <<>>
    ELSE LET before == StockDatabase_data(sel, fails, n - 1)
             df == yf_history(sel[n][1], sel[n][2])
         IN  IF sel[n][1] \notin fails /\ Len(df) > 0
             THEN Append(before, Normalize(sel[n][1], df))
             ELSE before

\* StockDatabase.insert: executemany of INSERT OR IGNORE, then commit.
StockDatabase_insert(table, rows) == executemany(table, rows)

\* StockDatabase._refresh_history: the table it leaves.
StockDatabase_refresh_history(table, tickers, fails) ==
    LET sel == StockDatabase_select(table, StockDatabase_tickers(tickers), 1)
        data_ == StockDatabase_data(sel, fails, Len(sel))
        df == concat(data_)
        fixed == IF updates.exists THEN df_update(df, updates.records) ELSE df
    IN  IF sel = <<>> \/ data_ = <<>> \/ df = <<>> THEN table
        ELSE StockDatabase_insert(table, itertuples(fixed))

\* StockDatabase.last_close, ticker_set being set(tickers) in the order the
\* set is iterated.
StockDatabase_last_close(table, ticker_set, begin, end) ==
    IF ticker_set = <<>> THEN Raised("ValueError", 0)
    ELSE LET Where(r) == InInterval(r, begin, end)
             found == SelectSeq(Select(table, ticker_set), Where)
             groups == TickersOf(found)
         IN  Returned([g \in 1 .. Len(groups) |->
                          [Ticker |-> groups[g],
                           CloseDate |-> MaxRow(GroupOf(found, groups[g])).Date,
                           ClosePrice |-> MaxRow(GroupOf(found, groups[g])).Close]], 1)

\* StockDatabase.splits, ticker_set being set(tickers) in the order the set
\* is iterated.
StockDatabase_splits(table, ticker_set) ==
    IF ticker_set = <<>> THEN Raised("ValueError", 0)
    ELSE LET Where(r) == r.Splits # NaN /\ r.Splits # 0
             found == to_datetime(SelectSeq(Select(table, ticker_set), Where))
             df == sort_values({[Date |-> r.Date, Ticker |-> r.Ticker, Splits |-> r.Splits] :
                                   r \in Range(found)})
             Before(i) == {j \in 1 .. i : df[j].Ticker = df[i].Ticker}
             Prod[i \in 1 .. Len(df)] ==
                 IF Before(i) = {i} THEN df[i].Splits
                 ELSE Times(Prod[CHOOSE j \in Before(i) \ {i} :
                                     \A h \in Before(i) \ {i} : h <= j],
                            df[i].Splits)
         IN  Returned([i \in 1 .. Len(df) |->
                          [Date |-> df[i].Date, Ticker |-> df[i].Ticker,
                           Splits |-> df[i].Splits, cumprod |-> Prod[i]]], 1)

\* The orders in which the elements of set(tickers) can be iterated.
SetOrders(tickers) ==
    {q \in Arrangements(Range(tickers), Cardinality(Range(tickers))) :
        Len(q) = Cardinality(Range(tickers))}

\* The argument lists the methods are called with: as for the functions, and
\* a list naming a ticker twice.
ClassRequests == QRequests \cup {<<"A", "A">>}

\* The updates file when the two implementations are compared.
ClassUpdates == {NoFile, Csv(<<Fix(64, "A", 88800, NaN)>>)}

\* A call of a method of StockDatabase on the connection.
Method(name, args, table, result) ==
    /\ pc = "idle" /\ qry.name = "none"
    /\ qry' = [name |-> name, args |-> args, before |-> Table,
               archive |-> archive, txn |-> txn]
    /\ res' = result
    /\ archive' = table
    /\ UNCHANGED <<txn, envVars, passVars, last, aborted, events, calVars>>

\* db.refresh('history', names), the upstream calls for fails raising.
StockDatabase_refresh ==
    \E names \in Requests \cup {<<"A", "A">>}, fails \in SUBSET Tickers :
        Method("_refresh_history", [tickers |-> names, fails |-> fails],
               StockDatabase_refresh_history(Table, names, fails), Returned(<<>>, 0))

CallLastCloseMethod ==
    \E tickers \in ClassRequests, w \in Windows :
        \E ticker_set \in SetOrders(tickers) :
            Method("last_close", [tickers |-> tickers, begin |-> w[1], end |-> w[2]],
                   archive, StockDatabase_last_close(Table, ticker_set, w[1], w[2]))

CallSplitsMethod ==
    \E tickers \in ClassRequests :
        \E ticker_set \in SetOrders(tickers) :
            Method("splits", [tickers |-> tickers], archive,
                   StockDatabase_splits(Table, ticker_set))

\* StockDatabase(settings, database, updates) on a filled database, on
\* Tuesday 2015-03-03 or Friday 2015-03-20, Yahoo Finance holding the bars of
\* 2015-01-05, 2015-03-03 and 2015-03-20.
InitClass ==
    /\ archive \in Arrangements(QRows, MaxQRows) /\ txn = <<>>
    /\ today \in {64, QToday}
    /\ upstream = [t \in Tickers |-> {7, 64, QToday}]
    /\ updates \in ClassUpdates
    /\ pc = "idle" /\ req = <<>> /\ select = <<>> /\ data = <<>> /\ k = 0
    /\ pre = <<>> /\ calls = <<>> /\ raised = {} /\ outcome = "none"
    /\ last = NoCall /\ aborted = NoAbort
    /\ events = 0
    /\ day = 0 /\ nwd = -1
    /\ qry = NoQuery /\ res = NoResult

NextClass ==
    \/ StockDatabase_refresh
    \/ CallLastCloseMethod
    \/ CallSplitsMethod

SpecClass == InitClass /\ [][NextClass]_vars

\* ---------------------------------------------------------------- C26
\* C26: StockDatabase and the functions of db/ agree: from the same archive,
\* settings, updates file, day and upstream responses _refresh_history
\* leaves the archive fetch.refresh_history leaves, and on the same archive
\* and arguments last_close returns what get_latest_close returns and
\* splits what get_splits returns.
C26_SameAsFunctions ==
    /\ qry.name = "_refresh_history" =>
           Table = refresh_history(qry.before, qry.args.tickers, qry.args.fails)
    /\ qry.name = "last_close" =>
           res = get_latest_close(qry.before, qry.args.tickers, qry.args.begin, qry.args.end)
    /\ qry.name = "splits" =>
           res = get_splits(qry.before, qry.args.tickers)

\* _refresh_history stored rows of LOW and of A on an archive that held
\* rows of both, with a record of the updates file laid over.
C26_Witness ==
    /\ qry.name = "_refresh_history" /\ qry.args.tickers = <<>> /\ qry.args.fails = {}
    /\ updates.exists
    /\ RowsOf(qry.before, "LOW") # {} /\ RowsOf(qry.before, "A") # {}
    /\ RowsOf(archive, "LOW") # RowsOf(qry.before, "LOW")
    /\ RowsOf(archive, "A") # RowsOf(qry.before, "A")

\* last_close and splits returned rows for a list naming two tickers, and for
\* one naming a ticker twice.
C26_LastCloseExample ==
    /\ qry.name = "last_close" /\ qry.args.tickers = <<"B", "A">> /\ Len(res.rows) = 2

C26_SplitsExample ==
    /\ qry.name = "splits" /\ qry.args.tickers = <<"A", "A">> /\ Len(res.rows) = 2


\* ---------------------------------------------------------------- C27
\* C27: get_prices called with both the dividends and the splits flag
\* returns only rows that have a dividend and a split on the same day: a row
\* with a dividend and no split, or a split and no dividend, is not returned.
C27_BothFilters ==
    (qry.name = "get_prices" /\ qry.args.dividends /\ qry.args.splits
       /\ res.status = "ok") =>
        \A i \in 1 .. Len(res.rows) :
            /\ res.rows[i].Dividends # NaN /\ res.rows[i].Dividends > 0
            /\ res.rows[i].Splits # NaN /\ res.rows[i].Splits # 0

\* The archive holds a row of B with a dividend and no split, a row of B
\* with a split and no dividend and a row of A with both; get_prices for A
\* and B with both flags returns the row of A alone.
C27_Witness ==
    /\ qry.name = "get_prices" /\ qry.args.dividends /\ qry.args.splits
    /\ qry.args.tickers = <<"B", "A">> /\ qry.args.begin = NoDate /\ qry.args.end = NoDate
    /\ \E r \in RowsOf(qry.before, "B") : r.Dividends > 0 /\ r.Splits = 0
    /\ \E r \in RowsOf(qry.before, "B") : r.Dividends = 0 /\ r.Splits # 0
    /\ Len(res.rows) = 1 /\ res.rows[1].Ticker = "A"

=============================================================================
